---- MODULE Spec2Model ----
(***************************************************************************)
(* A model of babyai_env_description.py: the view partitioner, the cell,   *)
(* region and frame describers, the TaskSequencePromptBuilder and the      *)
(* sample generator.  Every entry point is a pure function of its          *)
(* arguments (and, for the builder's methods, of the fields __init__       *)
(* assigned), so a behaviour is: Init draws one call with its arguments    *)
(* from bounded sets, and the call's action runs the function's code and   *)
(* records what it returned or raised.                                     *)
(*                                                                         *)
(* Python values: a str is a TLA+ string, a list or tuple is a sequence    *)
(* (index i of Python is index i + 1 here), None is the string NoneVal,    *)
(* an exception is its class name in the variable err.                     *)
(***************************************************************************)
EXTENDS Integers, Sequences, FiniteSets, TLC

VARIABLES
    pc,                 \* "call" before the entry point runs, "done" after
    op,                 \* the entry point this behaviour calls
    image,              \* argument: the observation frame, [Coords -> cell triple]
    region,             \* argument of region_description: list of (r, c)
    view_partition,     \* argument of image_description: list of (statement, region)
    encoding_labels,    \* registry entry: the template, a list of rows of labels
    label_to_statement, \* registry entry: label -> statement
    sequence,           \* argument: sequence.sequence, the list of timestep records
    timestamp,          \* argument of build_prompt / action_taken; randint's draw
    self,               \* the builder object: the fields __init__ has assigned
    description,        \* the local list `description` of the describer that ran
    partitions,         \* what make_view_partition returned
    result,             \* the str returned
    action,             \* the action name returned
    err                 \* "none", or the class of the exception raised

vars == <<pc, op, image, region, view_partition, encoding_labels,
          label_to_statement, sequence, timestamp, self, description,
          partitions, result, action, err>>

----------------------------------------------------------------------------
(* Bounds of the model.                                                    *)

\* VIEW_SHAPE of babyai.common scaled down: rows and columns of the ego view.
ViewRows == 2
ViewCols == 2
\* Longest region handed to region_description.
MaxRegion == 3
\* Most cells of a whole frame that are not 'unseen'.
MaxSeen == 2
\* Longest task sequence.
MaxSeq == 3

----------------------------------------------------------------------------
(* The vocabularies of babyai.common and the geometry of the view.         *)

VIEW_SHAPE == <<ViewRows, ViewCols>>
EGO_ROW == VIEW_SHAPE[1] - 1
EGO_COL == VIEW_SHAPE[2] \div 2
EGO == "E"

OBJECTS == <<"unseen", "empty", "wall", "floor", "door", "key", "ball", "box">>
COLORS == <<"red", "green", "blue", "purple", "yellow", "grey">>
DOOR_STATES == <<"open", "closed", "locked">>

NoneVal == "<None>"

Coords == (0 .. ViewRows - 1) \X (0 .. ViewCols - 1)

----------------------------------------------------------------------------
(* Python's str and list operations, as the code uses them.                *)

\* `sub in s` on two str: substring test.
StrContains(s, sub) ==
    \E i \in 1 .. (Len(s) - Len(sub) + 1) : SubSeq(s, i, i + Len(sub) - 1) = sub

\* `v in x` on a tuple x = (entity, count) and a str v: equality with an
\* element.  The count is an int and never equals a str.
TupleContains(x, v) == x[1] = v

RECURSIVE StrJoin(_, _)
\* sep.join(list)
StrJoin(sep, list) ==
    IF list = <<>> THEN ""
    ELSE IF Len(list) = 1 THEN list[1]
    ELSE list[1] \o sep \o StrJoin(sep, Tail(list))

\* list[i] is defined for -len <= i < len; a negative i counts from the end.
PyInRange(list, i) == -Len(list) <= i /\ i < Len(list)
PyIndex(list, i) == IF i >= 0 THEN list[i + 1] ELSE list[Len(list) + i + 1]

----------------------------------------------------------------------------
(* Cell Describer.                                                         *)

location_descriptors(img, r, c) ==
    LET cell == img[<<r, c>>]
    IN  <<OBJECTS[cell[1] + 1], COLORS[cell[2] + 1], DOOR_STATES[cell[3] + 1]>>

location_string(img, r, c) ==
    LET d == location_descriptors(img, r, c)
        object == d[1]
        color == d[2]
        door == d[3]
    IN  IF object = "unseen" THEN "unseen"
        ELSE IF object \in {"empty", "floor"} THEN "empty"
        ELSE IF object = "door" THEN door \o " " \o color \o " " \o object
        ELSE color \o " " \o object

----------------------------------------------------------------------------
(* Region Describer.                                                       *)

\* entities[entry] += 1 on a Counter kept in insertion order:
\* a sequence of (entity, count).
CounterAdd(entities, entry) ==
    IF \E k \in 1 .. Len(entities) : entities[k][1] = entry
    THEN [k \in 1 .. Len(entities) |->
             IF entities[k][1] = entry
             THEN <<entry, entities[k][2] + 1>>
             ELSE entities[k]]
    ELSE Append(entities, <<entry, 1>>)

RECURSIVE tally_entities(_, _, _)
\* The loop of lines 91-93 over region[k ..], from the Counter so far.
tally_entities(img, reg, entities) ==
    IF reg = <<>> THEN entities
    ELSE tally_entities(img, Tail(reg),
             CounterAdd(entities, location_string(img, reg[1][1], reg[1][2])))

EntityKeys(entities) == {entities[k][1] : k \in 1 .. Len(entities)}

\* Line 94: is the early return taken?
all_unseen_or_empty(entities) == EntityKeys(entities) \subseteq {"unseen", "empty"}

\* space_sentence with the precedence of its two sentences exchanged.
space_sentence_unseen_first(entities) ==
    IF "unseen" \in EntityKeys(entities)
    THEN "the space is not visible."
    ELSE "the space is empty."

\* Line 95: the sentence of the early return.
space_sentence(entities) ==
    IF "empty" \in EntityKeys(entities)
    THEN "the space is empty."
    ELSE "the space is not visible."

\* Line 98: the sort key.
wall_key(x) == IF TupleContains(x, "wall") THEN 1 ELSE 0

\* Line 98: sorted() is stable, and the key is 0 or 1.
entities_walls_last(entities) ==
    SelectSeq(entities, LAMBDA x : wall_key(x) = 0)
        \o SelectSeq(entities, LAMBDA x : wall_key(x) = 1)

\* plural_suffix without the test for 'box'.
plural_suffix_always_s(entity) == "s"

\* Line 103.
plural_suffix(entity) == IF StrContains(entity, "box") THEN "es" ELSE "s"

\* Lines 102-106: the clause of one (entity, count).
entity_clause(entity, count) ==
    IF count > 1
    THEN ToString(count) \o " " \o entity \o plural_suffix(entity)
    ELSE "a " \o entity

RECURSIVE region_clauses(_)
\* Lines 99-106: the list `description` after the loop.
region_clauses(items) ==
    IF items = <<>> THEN <<>>
    ELSE LET entity == items[1][1]
             count == items[1][2]
         IN  IF entity = "unseen" \/ entity = "empty"
             THEN region_clauses(Tail(items))
             ELSE <<entity_clause(entity, count)>> \o region_clauses(Tail(items))

\* Lines 109-114.
region_sentence(desc) ==
    LET tail == IF Len(desc) > 1
                THEN StrJoin(", ", SubSeq(desc, 1, Len(desc) - 1))
                         \o " and " \o desc[Len(desc)]
                ELSE desc[1]
        linking_verb == IF SubSeq(tail, 1, 1) = "a" THEN "is" ELSE "are"
    IN  linking_verb \o " " \o tail \o "."

\* The local `description` when region_description returns.
region_description_list(img, reg) ==
    LET entities == tally_entities(img, reg, <<>>)
    IN  IF all_unseen_or_empty(entities) THEN <<>>
        ELSE region_clauses(entities_walls_last(entities))

region_description(img, reg) ==
    LET entities == tally_entities(img, reg, <<>>)
    IN  IF all_unseen_or_empty(entities)
        THEN space_sentence(entities)
        ELSE region_sentence(region_clauses(entities_walls_last(entities)))

----------------------------------------------------------------------------
(* Frame Describer.                                                        *)

RECURSIVE image_description_list_region_first(_, _)
\* image_description_list with the two appends of the loop body exchanged.
image_description_list_region_first(img, part) ==
    IF part = <<>> THEN <<"You are in a room.">>
    ELSE LET k == Len(part)
             statement == part[k][1]
             reg == part[k][2]
         IN  image_description_list_region_first(img, SubSeq(part, 1, k - 1))
                 \o <<region_description(img, reg), statement>>

RECURSIVE image_description_list(_, _)
\* Lines 119-123: the list `description` after the loop.  The statement and
\* the region's sentence of the first pair follow what came before it.
image_description_list(img, part) ==
    IF part = <<>> THEN <<"You are in a room.">>
    ELSE LET k == Len(part)
             statement == part[k][1]
             reg == part[k][2]
         IN  image_description_list(img, SubSeq(part, 1, k - 1))
                 \o <<statement, region_description(img, reg)>>

\* Line 124.
image_description(img, part) == StrJoin(" ", image_description_list(img, part))

----------------------------------------------------------------------------
(* View Partitioner.                                                       *)

\* The labels a template may use besides EGO, in the order sorted() puts
\* single-character str keys.
LabelOrder == <<"0", "1", "2", "3", "4", "5", "6", "7">>

\* encoding_labels[r][c]
LabelAt(labels, r, c) == SubSeq(labels[r + 1], c + 1, c + 1)

\* itertools.product(range(n), range(m)) as a list.
product_range(n, m) == [k \in 1 .. n * m |-> <<(k - 1) \div m, (k - 1) % m>>]

\* Lines 53-58: partition_dict[statement] after the loop; a defaultdict, so a
\* statement no cell resolved to reads as [].
partition_dict(labels, l2s, n, m, statement) ==
    SelectSeq(product_range(n, m),
              LAMBDA rc : /\ LabelAt(labels, rc[1], rc[2]) # EGO
                          /\ l2s[LabelAt(labels, rc[1], rc[2])] = statement)

\* Line 61: the labels of sorted(list(label_to_statement.items())).
sorted_labels(l2s) == SelectSeq(LabelOrder, LAMBDA l : l \in DOMAIN l2s)

\* Lines 60-63.
emit_partitions(labels, l2s, n, m) ==
    LET keys == sorted_labels(l2s)
    IN  [k \in 1 .. Len(keys) |->
            <<l2s[keys[k]], partition_dict(labels, l2s, n, m, l2s[keys[k]])>>]

\* make_view_partition on the registry entry (encoding_labels,
\* label_to_statement) that line 47 unpacks.
make_view_partition(labels, l2s) ==
    LET n == Len(labels)
        m == Len(labels[1])
    IN  IF <<n, m>> # VIEW_SHAPE
        THEN [err |-> "AssertionError", val |-> <<>>]
        ELSE IF \E rc \in (0 .. n - 1) \X (0 .. m - 1) :
                    /\ LabelAt(labels, rc[1], rc[2]) # EGO
                    /\ LabelAt(labels, rc[1], rc[2]) \notin DOMAIN l2s
        THEN [err |-> "KeyError", val |-> <<>>]
        ELSE [err |-> "none", val |-> emit_partitions(labels, l2s, n, m)]

\* The label of cell (r, c) in the 'cardinal_diagonal' template, by the rule
\* its 7 x 7 diagram follows, so that it scales with the view.
cardinal_diagonal_label(r, c) ==
    IF r = EGO_ROW
    THEN IF c = EGO_COL THEN EGO
         ELSE IF c = EGO_COL - 1 THEN "1"
         ELSE IF c = EGO_COL + 1 THEN "2"
         ELSE IF c < EGO_COL THEN "4"
         ELSE "5"
    ELSE IF c = EGO_COL
    THEN IF r = EGO_ROW - 1 THEN "0" ELSE "3"
    ELSE IF c < EGO_COL THEN "6"
    ELSE "7"

RECURSIVE cardinal_diagonal_row(_, _)
cardinal_diagonal_row(r, c) ==
    IF c = ViewCols THEN ""
    ELSE cardinal_diagonal_label(r, c) \o cardinal_diagonal_row(r, c + 1)

cardinal_diagonal_labels == [r \in 1 .. ViewRows |-> cardinal_diagonal_row(r - 1, 0)]

cardinal_diagonal_statements ==
    [l \in {"0", "1", "2", "3", "4", "5", "6", "7"} |->
        CASE l = "0" -> "Directly front"
          [] l = "1" -> "Directly left"
          [] l = "2" -> "Directly right"
          [] l = "3" -> "Farther front"
          [] l = "4" -> "Farther left"
          [] l = "5" -> "Farther right"
          [] l = "6" -> "Farther front left"
          [] l = "7" -> "Farther front right"]

\* EGO_VIEW_ENCODINGS['cardinal_diagonal'].  In the 7 x 7 diagram every label
\* of the map occurs; the scaled diagram keeps that by dropping the entries of
\* the labels it has no room for.
EGO_VIEW_ENCODINGS ==
    LET used == {cardinal_diagonal_label(rc[1], rc[2]) : rc \in Coords} \ {EGO}
    IN  <<cardinal_diagonal_labels,
          [l \in used |-> cardinal_diagonal_statements[l]]>>

----------------------------------------------------------------------------
(* Prompt Builder and Sample Generator.                                    *)

\* The action labels a timestep record carries, and the vocabulary of
\* babyai.common that names them (ACTIONS is a reserved word of TLA+).
ActionLabels == {"forward", "pickup", "drop"}
ACTIONS_VOCAB ==
    [a \in ActionLabels |->
        CASE a = "forward" -> "go forward"
          [] a = "pickup" -> "pick up"
          [] a = "drop" -> "drop item"]

\* The object before __init__ has assigned anything.
NoSelf ==
    [fields |-> {}, sequence |-> <<>>, view_partition |-> <<>>,
     inventory_history |-> <<>>]

\* Lines 133-141.  Line 135 iterates range(sequence.sequence); the argument
\* is the list that lines 145 and 155 subscript, and range() of a list raises
\* TypeError before the loop body runs once, whatever the list holds.
inventory_scan(seq) == [err |-> "TypeError", inventory_history |-> <<>>]

\* TaskSequencePromptBuilder.__init__: the fields it has assigned when it
\* returns or raises, and what it raised.
builder_init(seq, labels, l2s) ==
    LET p == make_view_partition(labels, l2s)
        scan == inventory_scan(seq)
    IN  IF p.err # "none"
        THEN [err |-> p.err,
              self |-> [NoSelf EXCEPT !.fields = {"sequence"}, !.sequence = seq]]
        ELSE [err |-> scan.err,
              self |-> [fields |-> {"sequence", "view_partition", "inventory_history"},
                        sequence |-> seq,
                        view_partition |-> p.val,
                        inventory_history |-> scan.inventory_history]]

\* build_prompt.  No line of the class assigns self.inventory_item, so
\* reading it on line 148 raises AttributeError.
build_prompt(slf, t) ==
    IF ~ PyInRange(slf.sequence, t)
    THEN [err |-> "IndexError", val |-> ""]
    ELSE IF "view_partition" \notin slf.fields \/ "inventory_history" \notin slf.fields
    THEN [err |-> "AttributeError", val |-> ""]
    ELSE LET img == PyIndex(slf.sequence, t).image
             desc == <<image_description(img, slf.view_partition)>>
         IN  IF ~ PyInRange(slf.inventory_history, t)
             THEN [err |-> "IndexError", val |-> ""]
             ELSE IF PyIndex(slf.inventory_history, t) \notin {NoneVal, ""}
             THEN [err |-> "AttributeError", val |-> ""]
             ELSE [err |-> "none",
                   val |-> StrJoin(" ", Append(desc, "You are not carrying anything."))]

\* action_taken.
action_taken(slf, t) ==
    IF ~ PyInRange(slf.sequence, t)
    THEN [err |-> "IndexError", val |-> ""]
    ELSE [err |-> "none", val |-> ACTIONS_VOCAB[PyIndex(slf.sequence, t).action]]

\* generate_env_description_sample once random.randint has drawn t.
generate_env_description_sample(seq, labels, l2s, t) ==
    LET generator == builder_init(seq, labels, l2s)
        prompt == build_prompt(generator.self, t)
        act == action_taken(generator.self, t)
    IN  IF generator.err # "none"
        THEN [err |-> generator.err, self |-> generator.self, prompt |-> "", action |-> ""]
        ELSE IF prompt.err # "none"
        THEN [err |-> prompt.err, self |-> generator.self, prompt |-> "", action |-> ""]
        ELSE [err |-> act.err, self |-> generator.self, prompt |-> prompt.val,
              action |-> act.val]

----------------------------------------------------------------------------------------------------------------------------------------
(* The arguments Init draws from.                                          *)

Unseen == <<0, 0, 0>>
\* unseen, empty, floor, grey wall, closed red door, red ball, red box
CellCodes ==
    {Unseen, <<1, 0, 0>>, <<3, 0, 0>>, <<2, 5, 0>>, <<4, 0, 1>>, <<6, 0, 0>>, <<7, 0, 0>>}
\* empty, grey wall, red ball: what the whole frames below are painted with
FrameCodes == {<<1, 0, 0>>, <<2, 5, 0>>, <<6, 0, 0>>}

\* The frame that shows `paint` on the cells of its domain and is unseen
\* elsewhere.
Painted(paint) == [c \in Coords |-> IF c \in DOMAIN paint THEN paint[c] ELSE Unseen]

\* Frames for region_description(image, region): the function reads the cells
\* of the region only, so the others stay unseen.
ImagesOn(reg) ==
    {Painted(paint) : paint \in [{reg[k] : k \in 1 .. Len(reg)} -> CellCodes]}

\* Whole frames with at most MaxSeen cells that are not unseen.
Images ==
    UNION {{Painted(paint) : paint \in [P -> FrameCodes]} :
              P \in {Q \in SUBSET Coords : Cardinality(Q) <= MaxSeen}}

BlankImage == Painted(<<>>)
BallImage == [c \in Coords |-> IF c = <<0, 0>> THEN <<6, 0, 0>> ELSE Unseen]

\* Lists of up to MaxRegion consecutive cells of the row-major order in which
\* the partitioner appends them.
Regions ==
    {SubSeq(product_range(ViewRows, ViewCols), sk[1], sk[1] + sk[2] - 1) :
        sk \in {x \in (1 .. (ViewRows * ViewCols)) \X (0 .. MaxRegion) :
                   x[1] + x[2] - 1 <= ViewRows * ViewCols}}

Statements == {"Directly front", "Directly left"}
LabelMaps == UNION {[D -> Statements] : D \in SUBSET {"0", "1"}}

RECURSIVE TemplateRows(_, _)
\* The rows a template may have at row r, from column c on: EGO on the
\* agent's cell, "0" or "1" elsewhere.
TemplateRows(r, c) ==
    IF c = ViewCols THEN {""}
    ELSE {l \o row : l \in (IF <<r, c>> = <<EGO_ROW, EGO_COL>> THEN {EGO} ELSE {"0", "1"}),
                     row \in TemplateRows(r, c + 1)}

\* Templates of the view's shape, and templates one row short of it.
Templates ==
    {t \in [1 .. ViewRows -> UNION {TemplateRows(r, 0) : r \in 0 .. ViewRows - 1}] :
        \A r \in 1 .. ViewRows : t[r] \in TemplateRows(r - 1, 0)}
    \cup [1 .. ViewRows - 1 -> TemplateRows(0, 0)]

\* The template has the view's shape and its one EGO marks the agent's cell.
EgoPlaced(labels) ==
    /\ <<Len(labels), Len(labels[1])>> = VIEW_SHAPE
    /\ \A rc \in Coords :
          LabelAt(labels, rc[1], rc[2]) = EGO <=> rc = <<EGO_ROW, EGO_COL>>

ExamplePartition == << <<"Directly front", << <<0, 0>> >> >> >>

\* The partition of the registry's encoding, its prefixes, and the one-pair
\* partition of the end-to-end scenario.
ViewPartitions ==
    LET p == make_view_partition(EGO_VIEW_ENCODINGS[1], EGO_VIEW_ENCODINGS[2]).val
    IN  {SubSeq(p, 1, k) : k \in 0 .. Len(p)} \cup {ExamplePartition}

Frames == [action : ActionLabels, image : {BlankImage, BallImage}]
Sequences == UNION {[1 .. n -> Frames] : n \in 0 .. MaxSeq}
Timestamps == (-2) .. (MaxSeq + 1)

----------------
(* The state machine.                                                      *)

Init ==
    /\ pc = "call"
    /\ self = NoSelf
    /\ description = <<>>
    /\ partitions = <<>>
    /\ result = ""
    /\ action = ""
    /\ err = "none"
    /\ \/ /\ op = "region_description"
          /\ region \in Regions
          /\ image \in ImagesOn(region)
          /\ view_partition = <<>>
          /\ encoding_labels = EGO_VIEW_ENCODINGS[1]
          /\ label_to_statement = EGO_VIEW_ENCODINGS[2]
          /\ sequence = <<>>
          /\ timestamp = 0
       \/ /\ op = "image_description"
          /\ image \in Images
          /\ region = <<>>
          /\ view_partition \in ViewPartitions
          /\ encoding_labels = EGO_VIEW_ENCODINGS[1]
          /\ label_to_statement = EGO_VIEW_ENCODINGS[2]
          /\ sequence = <<>>
          /\ timestamp = 0
       \/ /\ op = "make_view_partition"
          /\ image = BlankImage
          /\ region = <<>>
          /\ view_partition = <<>>
          /\ encoding_labels \in Templates
          /\ label_to_statement \in LabelMaps
          /\ sequence = <<>>
          /\ timestamp = 0
       \/ /\ op = "TaskSequencePromptBuilder"
          /\ image = BlankImage
          /\ region = <<>>
          /\ view_partition = <<>>
          /\ encoding_labels = EGO_VIEW_ENCODINGS[1]
          /\ label_to_statement = EGO_VIEW_ENCODINGS[2]
          /\ sequence \in Sequences
          /\ timestamp \in Timestamps
       \/ /\ op = "generate_env_description_sample"
          /\ image = BlankImage
          /\ region = <<>>
          /\ view_partition = <<>>
          /\ encoding_labels = EGO_VIEW_ENCODINGS[1]
          /\ label_to_statement = EGO_VIEW_ENCODINGS[2]
          /\ sequence \in Sequences
          /\ timestamp = 0

Inputs ==
    <<op, image, region, view_partition, encoding_labels, label_to_statement, sequence>>

RegionDescription ==
    /\ pc = "call"
    /\ op = "region_description"
    /\ description' = region_description_list(image, region)
    /\ result' = region_description(image, region)
    /\ pc' = "done"
    /\ UNCHANGED <<Inputs, timestamp, self, partitions, action, err>>

ImageDescription ==
    /\ pc = "call"
    /\ op = "image_description"
    /\ description' = image_description_list(image, view_partition)
    /\ result' = image_description(image, view_partition)
    /\ pc' = "done"
    /\ UNCHANGED <<Inputs, timestamp, self, partitions, action, err>>

MakeViewPartition ==
    /\ pc = "call"
    /\ op = "make_view_partition"
    /\ LET p == make_view_partition(encoding_labels, label_to_statement)
       IN  /\ partitions' = p.val
           /\ err' = p.err
    /\ pc' = "done"
    /\ UNCHANGED <<Inputs, timestamp, self, description, result, action>>

\* TaskSequencePromptBuilder(sequence, view_encoding).  Python has allocated
\* the object before __init__ runs, and the fields __init__ assigned before it
\* raised stay assigned.
Construct ==
    /\ pc = "call"
    /\ op = "TaskSequencePromptBuilder"
    /\ LET b == builder_init(sequence, encoding_labels, label_to_statement)
       IN  /\ self' = b.self
           /\ err' = b.err
    /\ pc' = "constructed"
    /\ UNCHANGED <<Inputs, timestamp, description, partitions, result, action>>

\* self.build_prompt(timestamp) on the object __init__ left.
BuildPrompt ==
    /\ pc = "constructed"
    /\ LET r == build_prompt(self, timestamp)
       IN  /\ result' = r.val
           /\ err' = r.err
    /\ pc' = "build_prompt"
    /\ UNCHANGED <<Inputs, timestamp, self, description, partitions, action>>

\* self.action_taken(timestamp) on the object __init__ left.
ActionTaken ==
    /\ pc = "constructed"
    /\ LET r == action_taken(self, timestamp)
       IN  /\ action' = r.val
           /\ err' = r.err
    /\ pc' = "action_taken"
    /\ UNCHANGED <<Inputs, timestamp, self, description, partitions, result>>

\* generate_env_description_sample(sequence).  random.randint(0, n_frames - 1)
\* raises ValueError on the empty range of a sequence without frames.
GenerateEnvDescriptionSample ==
    /\ pc = "call"
    /\ op = "generate_env_description_sample"
    /\ IF Len(sequence) = 0
       THEN /\ err' = "ValueError"
            /\ UNCHANGED <<timestamp, self, result, action>>
       ELSE \E t \in 0 .. (Len(sequence) - 1) :
               LET g == generate_env_description_sample(
                            sequence, encoding_labels, label_to_statement, t)
               IN  /\ timestamp' = t
                   /\ self' = g.self
                   /\ err' = g.err
                   /\ result' = g.prompt
                   /\ action' = g.action
    /\ pc' = "done"
    /\ UNCHANGED <<Inputs, description, partitions>>

Next ==
    \/ RegionDescription
    \/ ImageDescription
    \/ MakeViewPartition
    \/ Construct
    \/ BuildPrompt
    \/ ActionTaken
    \/ GenerateEnvDescriptionSample

Spec == Init /\ [][Next]_vars

----------------------------------------------------------------------------
(* Properties.                                                             *)

Returned(entry) == pc = "done" /\ op = entry

\* The phrases of the cells of the region that region_description was given.
RegionPhrases ==
    {location_string(image, region[k][1], region[k][2]) : k \in 1 .. Len(region)}

PhraseCount(p) ==
    Cardinality({k \in 1 .. Len(region) :
                    location_string(image, region[k][1], region[k][2]) = p})

RECURSIVE SpacedPrefix(_, _)
\* The first n fragments of a list, each after the first preceded by one space.
SpacedPrefix(list, n) ==
    IF n = 1 THEN list[1]
    ELSE SpacedPrefix(list, n - 1) \o " " \o list[n]

\* C7: region_description on a non-empty region whose cells are all 'unseen'
\* returns exactly 'the space is not visible.'; on one whose cells are all
\* 'empty' or 'unseen' with at least one 'empty' it returns exactly 'the space
\* is empty.'; on a region with any other entity it returns neither sentence.
C7_SpaceSentences ==
    (Returned("region_description") /\ region # <<>>) =>
        /\ RegionPhrases = {"unseen"} => result = "the space is not visible."
        /\ (RegionPhrases \subseteq {"unseen", "empty"} /\ "empty" \in RegionPhrases)
              => result = "the space is empty."
        /\ ~ (RegionPhrases \subseteq {"unseen", "empty"})
              => result \notin {"the space is not visible.", "the space is empty."}

\* A region that mixes 'unseen' and 'empty' cells has been described as empty.
C7_Witness ==
    /\ Returned("region_description")
    /\ RegionPhrases = {"unseen", "empty"}
    /\ result = "the space is empty."

\* C9: every tallied phrase other than 'unseen'/'empty' yields exactly one
\* clause fixed by (phrase, count): 'a {phrase}' for count 1, '{count}
\* {phrase}s' for a larger count, with 'es' when the phrase contains 'box';
\* 'unseen' and 'empty' yield no clause, and the clause is in the sentence.
C9_Clauses ==
    Returned("region_description") =>
        LET phrases == RegionPhrases \ {"unseen", "empty"}
            clause(p) ==
                IF PhraseCount(p) = 1 THEN "a " \o p
                ELSE IF StrContains(p, "box")
                THEN ToString(PhraseCount(p)) \o " " \o p \o "es"
                ELSE ToString(PhraseCount(p)) \o " " \o p \o "s"
        IN  /\ Len(description) = Cardinality(phrases)
            /\ \A p \in phrases :
                  /\ Cardinality({i \in 1 .. Len(description) :
                                     description[i] = clause(p)}) = 1
                  /\ StrContains(result, clause(p))

\* Two red boxes and a red ball have been described.
C9_Witness ==
    /\ Returned("region_description")
    /\ PhraseCount("red box") = 2
    /\ description = <<"2 red boxes", "a red ball">>
    /\ result = "are 2 red boxes and a red ball."

\* C10: image_description returns 'You are in a room.' followed, for each
\* (statement, region) pair in partition order, by the statement and then the
\* region's description, joined by single spaces: 1 + 2k fragments for k pairs,
\* and 'You are in a room. Directly front is a red ball.' for the one-pair
\* partition with a red ball at (0, 0).
C10_FrameDescription ==
    Returned("image_description") =>
        LET k == Len(view_partition)
        IN  /\ Len(description) = 1 + 2 * k
            /\ description[1] = "You are in a room."
            /\ \A i \in 1 .. k :
                  /\ description[2 * i] = view_partition[i][1]
                  /\ description[2 * i + 1]
                        = region_description(image, view_partition[i][2])
            /\ result = SpacedPrefix(description, 1 + 2 * k)
            /\ (view_partition = ExamplePartition /\ image[<<0, 0>>] = <<6, 0, 0>>)
                  => result = "You are in a room. Directly front is a red ball."

\* The frame with a red ball at (0, 0) has been described under the one-pair
\* partition.
C10_Witness ==
    /\ Returned("image_description")
    /\ view_partition = ExamplePartition
    /\ image[<<0, 0>>] = <<6, 0, 0>>
    /\ result = "You are in a room. Directly front is a red ball."

\* The template and label map are well formed: the template has the view's
\* shape, its one EGO marks the agent's cell, and every other label of the
\* template has an entry in the map.
WellFormed(labels, l2s) ==
    /\ EgoPlaced(labels)
    /\ \A rc \in Coords \ {<<EGO_ROW, EGO_COL>>} :
          LabelAt(labels, rc[1], rc[2]) \in DOMAIN l2s

\* The places (pair, position) at which a coordinate occurs in a partition.
Occurrences(part, rc) ==
    {ij \in (1 .. Len(part)) \X (1 .. ViewRows * ViewCols) :
        /\ ij[2] <= Len(part[ij[1]][2])
        /\ part[ij[1]][2][ij[2]] = rc}

\* C2: for a well-formed template and label map, make_view_partition returns
\* a true partition of the non-ego cells: every non-ego cell occurs in exactly
\* one region, once, and the ego cell occurs in none.
C2_TruePartition ==
    (Returned("make_view_partition") /\ WellFormed(encoding_labels, label_to_statement)) =>
        /\ err = "none"
        /\ \A rc \in Coords :
              Cardinality(Occurrences(partitions, rc))
                  = IF rc = <<EGO_ROW, EGO_COL>> THEN 0 ELSE 1

\* C8: region_description on a region of zero coordinates fails with an
\* EmptyRegion error and returns no sentence, and every region that
\* make_view_partition emits is non-empty.
C8_EmptyRegion ==
    /\ (Returned("region_description") /\ region = <<>>)
          => (err = "EmptyRegion" /\ result = "")
    /\ (Returned("make_view_partition") /\ err = "none")
          => \A i \in 1 .. Len(partitions) : partitions[i][2] # <<>>

\* C6: in the sentence of a region with an entity other than 'unseen'/'empty',
\* every clause that contains 'wall' comes after every clause that does not.
C6_WallsLast ==
    (Returned("region_description") /\ description # <<>>) =>
        \A i, j \in 1 .. Len(description) :
            (StrContains(description[i], "wall") /\ ~ StrContains(description[j], "wall"))
                => j < i

\* Is an item held after the action of timestep t (1-based), by the
\* pickup/drop state machine started empty-handed?
Holding(seq, t) ==
    \E p \in 1 .. t :
        /\ seq[p].action = "pickup"
        /\ \A q \in (p + 1) .. t : seq[q].action # "drop"

\* C1: after constructing a Prompt Builder over a sequence, the inventory
\* trace has one entry per timestep, and entry t is an item description when
\* the pickup/drop state machine holds an item after timestep t, and 'no item
\* held' otherwise.
C1_InventoryTrace ==
    (op = "TaskSequencePromptBuilder" /\ pc = "constructed") =>
        /\ err = "none"
        /\ Len(self.inventory_history) = Len(sequence)
        /\ \A t \in 1 .. Len(sequence) :
              (self.inventory_history[t] = NoneVal) <=> ~ Holding(sequence, t)

\* C3: for every timestep t with 0 <= t < sequence length, build_prompt(t)
\* returns the description of timestep t's frame followed by the one
\* inventory sentence that the inventory trace at index t chooses.
C3_BuildPrompt ==
    (pc = "build_prompt" /\ 0 <= timestamp /\ timestamp < Len(sequence)) =>
        /\ err = "none"
        /\ Len(self.inventory_history) = Len(sequence)
        /\ LET item == self.inventory_history[timestamp + 1]
               frame == image_description(sequence[timestamp + 1].image,
                                          self.view_partition)
           IN  result = frame \o " "
                          \o (IF item = NoneVal
                              THEN "You are not carrying anything."
                              ELSE "You are carrying a " \o item \o ".")

\* C4: build_prompt(t) and action_taken(t) fail with an index error for every
\* timestep outside [0, sequence length), and return no prompt and no action.
C4_IndexOutOfRange ==
    (pc \in {"build_prompt", "action_taken"}
        /\ (timestamp < 0 \/ timestamp >= Len(sequence))) =>
        /\ err = "IndexError"
        /\ result = ""
        /\ action = ""

\* C5: generate_env_description_sample on a sequence with at least one frame
\* picks a timestep t with 0 <= t <= frame_count - 1 and returns the prompt
\* and the action name of that timestep.
C5_Sample ==
    (Returned("generate_env_description_sample") /\ Len(sequence) >= 1) =>
        /\ timestamp \in 0 .. (Len(sequence) - 1)
        /\ err = "none"
        /\ result # ""
        /\ action = ACTIONS_VOCAB[sequence[timestamp + 1].action]

====
